---- MODULE Spec2Model ----
(***************************************************************************)
(* Midi-Fy server (src/server.js): the scale helpers, extractJson and the  *)
(* POST /compose handler, as a state machine.                              *)
(*                                                                         *)
(* Three specifications share the variables:                               *)
(*   Spec         the /compose handler, one request after another;         *)
(*   SpecScale    nearestInScale applied to a pitch and a (key, mode);     *)
(*   SpecExtract  extractJson applied to a text.                           *)
(***************************************************************************)
EXTENDS Integers, Sequences, FiniteSets, TLC

VARIABLES
    STRICT_SCALE,   \* server.js:21, read once from the environment
    SNAP_TO_SCALE,  \* server.js:22, read once from the environment
    phase,          \* where the handler of the current request stands
    req,            \* req.body of the current request
    calls,          \* anthropic.messages.create calls made for this request
    inflight,       \* calls made and not yet settled
    hist,           \* what the handler has done so far for this request
    cand,           \* the value extractJson returned, before the handler mutates it
    res,            \* the response sent
    rejected,       \* the error a model call of this request was rejected with
    sp,             \* SpecScale: the pitch, key, mode and results
    ex              \* SpecExtract: the text and the outcome

vars == <<STRICT_SCALE, SNAP_TO_SCALE, phase, req, calls, inflight, hist, cand, res, rejected, sp, ex>>
handlerVars ==
    <<STRICT_SCALE, SNAP_TO_SCALE, phase, req, calls, inflight, hist, cand, res, rejected>>

(***************************************************************************)
(* JavaScript values.  null and undefined are both Null: the code tells    *)
(* them apart nowhere (it uses truthiness and == null).  A number is an    *)
(* integer n, or n + 1/2 when half is TRUE.                                *)
(***************************************************************************)
Null == [t |-> "null"]
Num(n) == [t |-> "num", n |-> n, half |-> FALSE]
Half(n) == [t |-> "num", n |-> n, half |-> TRUE]
Str(s) == [t |-> "str", s |-> s]
Arr(a) == [t |-> "arr", a |-> a]

\* JavaScript truthiness of a value.
Truthy(v) ==
    CASE v.t = "null" -> FALSE
      [] v.t = "num" -> (v.n # 0 \/ v.half)
      [] v.t = "str" -> v.s # ""
      [] OTHER -> TRUE

\* a || b
Or(a, b) == IF Truthy(a) THEN a ELSE b

\* JavaScript's remainder: the sign of the dividend.
JsRem(a, b) == IF a >= 0 THEN a % b ELSE -((-a) % b)

Abs(x) == IF x < 0 THEN -x ELSE x

(***************************************************************************)
(* Scale helpers, server.js:13-44                                          *)
(***************************************************************************)
PITCH_CLASS ==
    ("C" :> 0) @@ ("C#" :> 1) @@ ("Db" :> 1) @@ ("D" :> 2) @@ ("D#" :> 3) @@
    ("Eb" :> 3) @@ ("E" :> 4) @@ ("F" :> 5) @@ ("F#" :> 6) @@ ("Gb" :> 6) @@
    ("G" :> 7) @@ ("G#" :> 8) @@ ("Ab" :> 8) @@ ("A" :> 9) @@ ("A#" :> 10) @@
    ("Bb" :> 10) @@ ("B" :> 11)

MODES ==
    [major      |-> <<0, 2, 4, 5, 7, 9, 11>>,
     minor      |-> <<0, 2, 3, 5, 7, 8, 10>>,
     dorian     |-> <<0, 2, 3, 5, 7, 9, 10>>,
     mixolydian |-> <<0, 2, 4, 5, 7, 9, 10>>]

\* String.prototype.toLowerCase on the strings the model uses.
toLowerCase(s) ==
    CASE s = "Major" -> "major"
      [] s = "TRUE" -> "true"
      [] s = "Minor" -> "minor"
      [] s = "Dorian" -> "dorian"
      [] s = "MIXOLYDIAN" -> "mixolydian"
      [] OTHER -> s

\* const pc = (n) => ((n % 12) + 12) % 12, on an integer
pc(n) == JsRem(JsRem(n, 12) + 12, 12)

\* buildScale(key, mode) on strings: Null when the key is not in PITCH_CLASS,
\* MODES.major when the lower-cased mode is not in MODES.
buildScale(key, mode) ==
    LET m == toLowerCase(mode)
        degrees == IF m \in DOMAIN MODES THEN MODES[m] ELSE MODES.major
    IN  IF key \notin DOMAIN PITCH_CLASS
        THEN Null
        ELSE LET root == PITCH_CLASS[key]
             IN  [t |-> "scale", root |-> root, degrees |-> degrees,
                  set |-> {JsRem(root + degrees[i], 12) : i \in DOMAIN degrees}]

\* inScale(p, scaleSet) on an integer p
inScale(p, scaleSet) ==
    IF scaleSet = Null THEN TRUE ELSE pc(p) \in scaleSet.set

\* The for loop of nearestInScale from distance d on: down before up.
RECURSIVE nearestFrom(_, _, _)
nearestFrom(p, scaleSet, d) ==
    IF d > 6 THEN p
    ELSE IF pc(p - d) \in scaleSet.set THEN p - d
    ELSE IF pc(p + d) \in scaleSet.set THEN p + d
    ELSE nearestFrom(p, scaleSet, d + 1)

\* A slip the tie-break claim must notice: up is tried before down.
RECURSIVE nearestFromUpFirst(_, _, _)
nearestFromUpFirst(p, scaleSet, d) ==
    IF d > 6 THEN p
    ELSE IF pc(p + d) \in scaleSet.set THEN p + d
    ELSE IF pc(p - d) \in scaleSet.set THEN p - d
    ELSE nearestFromUpFirst(p, scaleSet, d + 1)

nearestInScaleUpFirst(p, scaleSet) ==
    IF scaleSet = Null THEN p
    ELSE IF inScale(p, scaleSet) THEN p
    ELSE nearestFromUpFirst(p, scaleSet, 1)

\* nearestInScale(p, scaleSet) on an integer p
nearestInScale(p, scaleSet) ==
    IF scaleSet = Null THEN p
    ELSE IF inScale(p, scaleSet) THEN p
    ELSE nearestFrom(p, scaleSet, 1)

(***************************************************************************)
(* SpecScale: nearestInScale on every pitch of a range around the MIDI     *)
(* range, every key of PITCH_CLASS and one unknown key, the four modes.    *)
(***************************************************************************)
PitchBelow == 14    \* pitches from -PitchBelow
PitchAbove == 141   \* up to PitchAbove

ScaleKeys == DOMAIN PITCH_CLASS \cup {"H"}
ScaleModes == DOMAIN MODES

NoProbe == [step |-> 0]

\* req.body || {} with no field set
NoRequest == [clipType |-> Null, bars |-> Null, key |-> Null, mode |-> Null]

InitScale ==
    /\ STRICT_SCALE = FALSE /\ SNAP_TO_SCALE = TRUE
    /\ phase = "idle" /\ req = NoRequest /\ calls = 0 /\ inflight = 0
    /\ hist = <<>> /\ cand = Null /\ res = Null /\ rejected = Null
    /\ ex = NoProbe
    /\ \E p \in (0 - PitchBelow)..PitchAbove, key \in ScaleKeys, mode \in ScaleModes :
          sp = [step |-> 0, p |-> p, key |-> key, mode |-> mode, r |-> p, rr |-> p]

\* r = nearestInScale(p, buildScale(key, mode))
SnapOnce ==
    /\ sp.step = 0
    /\ sp' = [sp EXCEPT !.step = 1,
                        !.r = nearestInScale(sp.p, buildScale(sp.key, sp.mode))]
    /\ UNCHANGED <<handlerVars, ex>>

\* rr = nearestInScale(r, buildScale(key, mode))
SnapAgain ==
    /\ sp.step = 1
    /\ sp' = [sp EXCEPT !.step = 2,
                        !.rr = nearestInScale(sp.r, buildScale(sp.key, sp.mode))]
    /\ UNCHANGED <<handlerVars, ex>>

NextScale == SnapOnce \/ SnapAgain

SpecScale == InitScale /\ [][NextScale]_vars

\* Membership of an integer's pitch class (mathematical modulo) in a built scale.
PitchClassIn(q, s) == (q % 12) \in s.set

\* C9: nearestInScale returns the nearest in-scale pitch, the lower one on a
\* tie: the result is in the scale, is p itself when p is in the scale, is at
\* most 6 semitones away, no in-scale integer is strictly closer, the pitch
\* below wins over the pitch above at the same distance, a second application
\* changes nothing, and with a null scale the result is p.
C9_NearestLowerWins ==
    LET s == buildScale(sp.key, sp.mode)
        p == sp.p
        r == sp.r
    IN  /\ (sp.step >= 1 /\ s = Null) => r = p
        /\ (sp.step >= 1 /\ s # Null) =>
              /\ PitchClassIn(r, s)
              /\ PitchClassIn(p, s) => r = p
              /\ Abs(r - p) <= 6
              /\ \A q \in (p - 12)..(p + 12) :
                    PitchClassIn(q, s) => Abs(q - p) >= Abs(r - p)
              /\ \A d \in 1..6 :
                    (PitchClassIn(p - d, s) /\ PitchClassIn(p + d, s) /\ Abs(r - p) = d)
                        => r = p - d
        /\ sp.step = 2 => sp.rr = r

\* An out-of-scale pitch with in-scale neighbours at the same distance on both
\* sides has been snapped twice, and a pitch with a null scale once.
C9_Witness ==
    /\ sp.step = 2
    /\ sp.p < 0
    /\ buildScale(sp.key, sp.mode) # Null
    /\ ~PitchClassIn(sp.p, buildScale(sp.key, sp.mode))
    /\ PitchClassIn(sp.p - 1, buildScale(sp.key, sp.mode))
    /\ PitchClassIn(sp.p + 1, buildScale(sp.key, sp.mode))
    /\ sp.r = sp.p - 1

(***************************************************************************)
(* extractJson, server.js:73-103.  A text is a sequence of tokens:         *)
(*   "{"  "}"   the brace characters                                       *)
(*   "m"        a member with a scalar value,  "a":1                       *)
(*   "q"        a member whose string value holds a brace,  "a":"}"        *)
(*   "k"        a key and its colon,  "a": , to be followed by a value     *)
(*   "x"        prose: characters that are no JSON                         *)
(*   "f"        a code fence marker, with or without its json tag          *)
(*   " "        white space                                                *)
(* JSON.parse accepts the objects  {}  {m}  {q}  {k value}  with white     *)
(* space anywhere between tokens; indexOf, lastIndexOf and the scan see    *)
(* the characters, so "q" is a closing brace to them.                      *)
(***************************************************************************)
Tokens == {"{", "}", "m", "q", "k", "x", "f", " "}

MaxLen == 5     \* longest text extractJson is applied to

\* The characters '{' and '}' as indexOf, lastIndexOf and the scan meet them.
IsOpen(c) == c = "{"
IsClose(c) == c = "}" \/ c = "q"

\* text.slice(a, b + 1) with 1-based inclusive positions a..b
Slice(s, a, b) == IF a > b THEN <<>> ELSE SubSeq(s, a, b)

\* text.replace(<fence>, ''): every fence marker is removed
StripFences(s) == SelectSeq(s, LAMBDA c : c # "f")

\* String.prototype.trim
RECURSIVE TrimLeft(_)
TrimLeft(s) == IF s # <<>> /\ Head(s) = " " THEN TrimLeft(Tail(s)) ELSE s
RECURSIVE TrimRight(_)
TrimRight(s) ==
    IF s # <<>> /\ s[Len(s)] = " " THEN TrimRight(SubSeq(s, 1, Len(s) - 1)) ELSE s
Trim(s) == TrimRight(TrimLeft(s))

\* The first position from i on that holds no white space (Len(s) + 1 if none).
RECURSIVE SkipWs(_, _)
SkipWs(s, i) == IF i <= Len(s) /\ s[i] = " " THEN SkipWs(s, i + 1) ELSE i

\* JSON.parse's grammar: the position after the value that starts at (or after
\* white space from) i, or 0 when no value starts there.
RECURSIVE ValueEnd(_, _)
ValueEnd(s, i) ==
    LET a == SkipWs(s, i)
    IN  IF a > Len(s) \/ s[a] # "{" THEN 0
        ELSE LET b == SkipWs(s, a + 1)
             IN  IF b > Len(s) THEN 0
                 ELSE IF s[b] = "}" THEN b + 1
                 ELSE IF s[b] \in {"m", "q"}
                      THEN LET c == SkipWs(s, b + 1)
                           IN  IF c <= Len(s) /\ s[c] = "}" THEN c + 1 ELSE 0
                 ELSE IF s[b] = "k"
                      THEN LET e == ValueEnd(s, b + 1)
                               c == SkipWs(s, e)
                           IN  IF e # 0 /\ c <= Len(s) /\ s[c] = "}" THEN c + 1 ELSE 0
                 ELSE 0

\* Whether JSON.parse(s) returns (TRUE) or throws (FALSE).
Parses(s) ==
    LET e == ValueEnd(s, 1) IN e # 0 /\ SkipWs(s, e) = Len(s) + 1

\* The value JSON.parse(s) returns: the text without its white space.
Parsed(s) == SelectSeq(s, LAMBDA c : c # " ")

Returned(s) == [ok |-> TRUE, value |-> Parsed(s)]
Thrown(m) == [ok |-> FALSE, message |-> m]

\* text.indexOf('{'): the first position of an opening brace, 0 if none
indexOf(s) ==
    IF \E i \in 1..Len(s) : IsOpen(s[i])
    THEN CHOOSE i \in 1..Len(s) : IsOpen(s[i]) /\ \A j \in 1..(i - 1) : ~IsOpen(s[j])
    ELSE 0

\* text.lastIndexOf('}'): the last position of a closing brace, 0 if none
lastIndexOf(s) ==
    IF \E i \in 1..Len(s) : IsClose(s[i])
    THEN CHOOSE i \in 1..Len(s) : IsClose(s[i]) /\ \A j \in (i + 1)..Len(s) : ~IsClose(s[j])
    ELSE 0

\* The scan with the depth kept from falling below zero.
RECURSIVE ScanClamped(_, _, _, _)
ScanClamped(s, i, depth, start) ==
    IF i > Len(s) THEN Thrown("No valid JSON found")
    ELSE IF IsOpen(s[i])
         THEN ScanClamped(s, i + 1, depth + 1, IF depth = 0 THEN i ELSE start)
    ELSE IF IsClose(s[i])
         THEN IF depth - 1 = 0 /\ start # 0 /\ Parses(Slice(s, start, i))
              THEN Returned(Slice(s, start, i))
              ELSE ScanClamped(s, i + 1, IF depth > 0 THEN depth - 1 ELSE 0, start)
    ELSE ScanClamped(s, i + 1, depth, start)

\* The balance scan, server.js:90-101, from position i with the loop's depth and
\* start (0: the code's -1).
RECURSIVE Scan(_, _, _, _)
Scan(s, i, depth, start) ==
    IF i > Len(s) THEN Thrown("No valid JSON found")
    ELSE IF IsOpen(s[i])
         THEN Scan(s, i + 1, depth + 1, IF depth = 0 THEN i ELSE start)
    ELSE IF IsClose(s[i])
         THEN IF depth - 1 = 0 /\ start # 0 /\ Parses(Slice(s, start, i))
              THEN Returned(Slice(s, start, i))
              ELSE Scan(s, i + 1, depth - 1, start)
    ELSE Scan(s, i + 1, depth, start)

\* extractJson(text) on a string
extractJson(text) ==
    IF text = <<>> THEN Thrown("Empty response")
    ELSE LET t == Trim(StripFences(text))
             first == indexOf(t)
             last == lastIndexOf(t)
         IN  IF Parses(t) THEN Returned(t)
             ELSE IF first # 0 /\ last # 0 /\ last > first /\ Parses(Slice(t, first, last))
                  THEN Returned(Slice(t, first, last))
             ELSE Scan(t, 1, 0, 0)

(***************************************************************************)
(* SpecExtract: extractJson on every text of at most MaxLen tokens.        *)
(***************************************************************************)
Texts == UNION {[1..n -> Tokens] : n \in 0..MaxLen}

InitExtract ==
    /\ STRICT_SCALE = FALSE /\ SNAP_TO_SCALE = TRUE
    /\ phase = "idle" /\ req = NoRequest /\ calls = 0 /\ inflight = 0
    /\ hist = <<>> /\ cand = Null /\ res = Null /\ rejected = Null
    /\ sp = NoProbe
    /\ \E text \in Texts : ex = [step |-> 0, text |-> text, out |-> Thrown("")]

\* out = extractJson(text), or the exception it throws
Extract ==
    /\ ex.step = 0
    /\ ex' = [ex EXCEPT !.step = 1, !.out = extractJson(ex.text)]
    /\ UNCHANGED <<handlerVars, sp>>

NextExtract == Extract

SpecExtract == InitExtract /\ [][NextExtract]_vars

\* s[i..j] is a brace-balanced block: it opens at i, and its braces close at j
\* and nowhere before.
RECURSIVE Balance(_, _, _)
Balance(s, i, j) ==
    IF j < i THEN 0
    ELSE Balance(s, i, j - 1) + (IF IsOpen(s[j]) THEN 1 ELSE IF IsClose(s[j]) THEN -1 ELSE 0)

IsBlock(s, i, j) ==
    /\ i < j /\ IsOpen(s[i]) /\ IsClose(s[j])
    /\ Balance(s, i, j) = 0
    /\ \A m \in i..(j - 1) : Balance(s, i, m) > 0

\* A block is top-level when no brace opened before it is still open where it
\* starts.
IsTopBlock(s, i, j) ==
    /\ IsBlock(s, i, j)
    /\ ~\E a \in 1..(i - 1) :
          IsOpen(s[a]) /\ \A m \in a..(i - 1) : Balance(s, a, m) > 0

\* The top-level blocks of s that JSON.parse accepts.
ParsingBlocks(s) ==
    {ij \in (1..Len(s)) \X (1..Len(s)) :
        IsTopBlock(s, ij[1], ij[2]) /\ Parses(Slice(s, ij[1], ij[2]))}

\* C10: extractJson returns the direct parse of the stripped text if that
\* parses, else the parse of the slice from the first '{' to the last '}' if
\* that parses, else the parse of the leftmost top-level brace-balanced block
\* that parses; it throws only when the text is empty or no top-level block of
\* it parses, and whatever it returns is the parse of a piece of the text.
C10_FallbackOrder ==
    ex.step = 1 =>
        LET t == Trim(StripFences(ex.text))
            first == indexOf(t)
            last == lastIndexOf(t)
            blocks == ParsingBlocks(t)
        IN  IF ex.text = <<>> THEN ~ex.out.ok
            ELSE IF Parses(t) THEN ex.out = Returned(t)
            ELSE IF first # 0 /\ last > first /\ Parses(Slice(t, first, last))
                 THEN ex.out = Returned(Slice(t, first, last))
            ELSE IF blocks # {}
                 THEN LET b == CHOOSE ij \in blocks : \A o \in blocks : ij[1] <= o[1]
                      IN  ex.out = Returned(Slice(t, b[1], b[2]))
            ELSE ex.out.ok =>
                    \E i \in 1..Len(t), j \in 1..Len(t) :
                        Parses(Slice(t, i, j)) /\ ex.out = Returned(Slice(t, i, j))

(***************************************************************************)
(* POST /compose, server.js:106-233                                        *)
(***************************************************************************)
MaxNotes == 2   \* longest notes array of a candidate document

\* Twice a number, so that n + 1/2 compares as an integer.
Twice(v) == 2 * v.n + (IF v.half THEN 1 ELSE 0)

\* Number.isFinite(v)
isFinite(v) == v.t = "num"

\* Number(v) || fallback, for the whole numbers and strings the model puts in
\* bars and length_bars: Number("2") is 2, Number("x") and Number(undefined)
\* are NaN, and NaN and 0 are falsy.
NumberOr(v, fallback) ==
    CASE v.t = "num" -> IF v.n # 0 THEN v.n ELSE fallback
      [] v.t = "str" -> IF v.s = "2" THEN 2 ELSE fallback
      [] OTHER -> fallback

\* s.startsWith('3/') on the time signatures of the model
startsWith3(s) == s \in {"3/4", "3/8"}

\* An exception, and String(err)
Exception(name, message) ==
    [name |-> name, message |-> Str(message), status |-> Null, response |-> Null,
     error |-> Null]
ErrString(err) == <<err.name, err.message.s>>

\* The responses: res.json(data) and res.status(status).send(prefix + detail)
NoInfo == [count |-> 0, key |-> Null, mode |-> Null]
Json(data) ==
    [kind |-> "json", status |-> 200, prefix |-> "", detail |-> <<>>, info |-> NoInfo,
     data |-> data]
Send(status, prefix, detail, info) ==
    [kind |-> "text", status |-> status, prefix |-> prefix, detail |-> detail,
     info |-> info, data |-> Null]

\* The catch block, server.js:221-232
Caught(err) ==
    IF Truthy(err.status) \/ Truthy(err.response) \/ Truthy(err.error)
    THEN LET status == IF Truthy(err.status) THEN err.status.n
                       ELSE IF Truthy(err.response) THEN err.response.n
                       ELSE 400
             detail == IF Truthy(err.message) THEN <<err.message.s>>
                       ELSE IF err.error = Null THEN <<"undefined">>
                       ELSE <<err.error.s>>
         IN  Send(status, "", detail, NoInfo)
    ELSE Send(400, "", ErrString(err), NoInfo)

\* const barsNum = Number(bars) || 8
barsNum(rq) == NumberOr(rq.bars, 8)

\* The schema test, server.js:176
schemaMissing(data) ==
    \/ ~Truthy(data)
    \/ data.notes.t # "arr"
    \/ ~Truthy(data.time_signature)
    \/ data.length_bars = Null

\* server.js:181, on a string time_signature
beatsPerBar(data) == IF startsWith3(data.time_signature.s) THEN 3 ELSE 4

\* server.js:182
totalBeats(data, rq) == NumberOr(data.length_bars, barsNum(rq)) * beatsPerBar(data)

\* The defaulting of the fields, server.js:184-188
withDefaults(data, rq) ==
    [data EXCEPT
        !.clip_type = Or(rq.clipType, Or(data.clip_type, Str("chords"))),
        !.length_bars = Num(NumberOr(data.length_bars, barsNum(rq))),
        !.time_signature = Or(data.time_signature, Str("4/4")),
        !.key = IF Truthy(rq.key) /\ ~Truthy(data.key) THEN rq.key ELSE data.key,
        !.mode = IF Truthy(rq.mode) /\ ~Truthy(data.mode) THEN rq.mode ELSE data.mode]

\* The filter's test with the bar limit left out.
noteFitsUnclamped(n, total) ==
    /\ isFinite(n.tb) /\ Twice(n.tb) >= 0
    /\ isFinite(n.db) /\ Twice(n.db) > 0
    /\ isFinite(n.p) /\ Twice(n.p) >= 0 /\ Twice(n.p) <= 2 * 127

\* The filter's test with a note that ends on the last beat dropped.
noteFitsStrictly(n, total) ==
    /\ isFinite(n.tb) /\ Twice(n.tb) >= 0
    /\ isFinite(n.db) /\ Twice(n.db) > 0
    /\ isFinite(n.p) /\ Twice(n.p) >= 0 /\ Twice(n.p) <= 2 * 127
    /\ Twice(n.tb) + Twice(n.db) < 2 * total

\* The filter's test, server.js:191-194, on a note object
noteFits(n, total) ==
    /\ isFinite(n.tb) /\ Twice(n.tb) >= 0
    /\ isFinite(n.db) /\ Twice(n.db) > 0
    /\ isFinite(n.p) /\ Twice(n.p) >= 0 /\ Twice(n.p) <= 2 * 127
    /\ Twice(n.tb) + Twice(n.db) <= 2 * total

\* server.js:198
scaleOf(data) ==
    IF Truthy(data.key) /\ Truthy(data.mode)
    THEN buildScale(data.key.s, data.mode.s)
    ELSE Null

\* inScale(n.p, scaleSet) on a number: the pitch class of n + 1/2 is no integer,
\* and the set holds integers only.
inScaleNum(v, scaleSet) ==
    IF v.half THEN scaleSet = Null ELSE inScale(v.n, scaleSet)

\* nearestInScale(n.p, scaleSet) on a number: no p - d or p + d of n + 1/2 has
\* its pitch class in the set, and the loop falls through to return p.
nearestInScaleNum(v, scaleSet) ==
    IF v.half THEN v ELSE Num(nearestInScale(v.n, scaleSet))

\* The map of the snap branch, server.js:202-207
snapNote(n, scaleSet) ==
    IF inScaleNum(n.p, scaleSet) THEN n
    ELSE [n EXCEPT !.p = nearestInScaleNum(n.p, scaleSet)]

\* data.notes.map(...) of the snap branch
RECURSIVE mapSnap(_, _)
mapSnap(notes, scaleSet) ==
    IF notes = <<>> THEN <<>>
    ELSE <<snapNote(Head(notes), scaleSet)>> \o mapSnap(Tail(notes), scaleSet)

\* snappedCount after the map: the notes out of scale whose pitch changed
snappedCount(notes, scaleSet) ==
    Cardinality({i \in DOMAIN notes :
        /\ ~inScaleNum(notes[i].p, scaleSet)
        /\ nearestInScaleNum(notes[i].p, scaleSet) # notes[i].p})

\* A strict branch that counts every note left by the filter.
badCountAll(notes, scaleSet) == Len(notes)

\* bad.length, server.js:209
badCount(notes, scaleSet) ==
    Cardinality({i \in DOMAIN notes : ~inScaleNum(notes[i].p, scaleSet)})

\* The handler from the schema test to the response, server.js:176-232, on the
\* value extractJson returned.
Process(data, rq) ==
    IF schemaMissing(data)
    THEN Send(400, "SCHEMA_MISSING_FIELDS", <<"notes/time_signature/length_bars">>, NoInfo)
    ELSE IF data.time_signature.t # "str"
    THEN Caught(Exception("TypeError", "data.time_signature.startsWith is not a function"))
    ELSE IF \E i \in DOMAIN data.notes.a : data.notes.a[i] = Null
    THEN Caught(Exception("TypeError", "Cannot read properties of null (reading 'tb')"))
    ELSE
        LET total == totalBeats(data, rq)
            d1 == withDefaults(data, rq)
            kept == SelectSeq(data.notes.a, LAMBDA n : noteFits(n, total))
            scaleSet == scaleOf(d1)
        IN  IF SNAP_TO_SCALE /\ scaleSet # Null
            THEN LET count == snappedCount(kept, scaleSet)
                     snapped == mapSnap(kept, scaleSet)
                 IN  Json([d1 EXCEPT
                        !.notes = Arr(snapped),
                        !.snapped_info =
                            IF count > 0
                            THEN [t |-> "obj", snapped_count |-> count,
                                  mode |-> "snap_to_scale"]
                            ELSE Null])
            ELSE IF STRICT_SCALE /\ scaleSet # Null /\ badCount(kept, scaleSet) # 0
            THEN Send(400, "OUT_OF_SCALE", <<"non-diatonic notes">>,
                      [count |-> badCount(kept, scaleSet), key |-> d1.key, mode |-> d1.mode])
            ELSE Json([d1 EXCEPT !.notes = Arr(kept)])

(***************************************************************************)
(* The inputs of the handler.  A request carries clipType, bars, key and   *)
(* mode (feel and text only reach the prompt).  A candidate document is    *)
(* drawn from three families, each varying one concern around a plain      *)
(* document: the timing of the notes, their pitches and the scale, and the *)
(* presence and type of the fields.                                        *)
(***************************************************************************)
Note(tb, db, p) == [t |-> "obj", tb |-> tb, db |-> db, p |-> p]

Doc(clip_type, length_bars, time_signature, key, mode, notes) ==
    [t |-> "obj", clip_type |-> clip_type, length_bars |-> length_bars,
     time_signature |-> time_signature, key |-> key, mode |-> mode, notes |-> notes,
     snapped_info |-> Null]

NoteSeqs(S) == UNION {[1..n -> S] : n \in 0..MaxNotes}

Requests ==
    [clipType : {Null, Str("bass")}, bars : {Null, Num(1)},
     key : {Null, Str("B")}, mode : {Null, Str("major")}]

TimeNotes ==
    {Note(tb, db, Num(60)) : tb \in {Null, Num(-1), Num(0), Num(5)},
                             db \in {Num(0), Num(1), Num(3)}}

TimeDocs ==
    {Doc(Null, lb, Str(ts), Null, Null, Arr(ns)) :
        lb \in {Num(2), Str("x")}, ts \in {"4/4", "3/4", "3/8"}, ns \in NoteSeqs(TimeNotes)}

PitchNotes ==
    {Note(Num(0), Num(1), p) :
        p \in {Null, Num(0), Num(61), Num(127), Num(128), Half(60)}} \cup {Null}

PitchDocs ==
    {Doc(Null, Num(2), Str("4/4"), key, mode, Arr(ns)) :
        key \in {Null, Str("C"), Str("B")}, mode \in {Null, Str("minor")},
        ns \in NoteSeqs(PitchNotes)}

FieldDocs ==
    {Doc(ct, lb, ts, key, mode, ns) :
        ct \in {Null, Str("lead")},
        lb \in {Null, Num(0), Num(2), Str("2")},
        ts \in {Null, Str("4/4"), Num(34)},
        key \in {Null, Str("C"), Str("H")},
        mode \in {Null, Str("Dorian")},
        ns \in {Null, Arr(<<>>), Arr(<<Note(Num(0), Num(1), Num(61))>>)}}

\* The documents tried with a request: a family whose concern the request does
\* not touch is tried with that part of the request left out.
DocsFor(rq) ==
    FieldDocs
    \cup (IF rq.clipType = Null /\ rq.key = Null /\ rq.mode = Null THEN TimeDocs ELSE {})
    \cup (IF rq.clipType = Null /\ rq.bars = Null THEN PitchDocs ELSE {})

\* The texts a model call resolves with: clean, fenced and prose-wrapped JSON,
\* the empty text, prose, and JSON behind a stray closing brace.
RawTexts ==
    {<<"{", "m", "}">>, <<"f", "{", "m", "}", "f">>, <<"x", "{", "m", "}", "x">>,
     <<>>, <<"x">>, <<"}", "{", "m", "}", "}">>}

\* The errors a model call is rejected with: an API error (status, message,
\* error body), an error that carries a response, a connection error.
Errors ==
    [name : {"Error"}, message : {Str(""), Str("rate limited")},
     status : {Null, Num(429), Num(529)}, response : {Null, Num(503)},
     error : {Null, Str("overloaded_error")}]

\* The values of an environment variable: unset (or empty), and three spellings.
EnvValues == {"", "true", "TRUE", "false"}

\* String(value || fallback).toLowerCase() === 'true', server.js:21-22
envFlag(value, fallback) ==
    toLowerCase(IF value = "" THEN fallback ELSE value) = "true"

Init ==
    /\ \E strict \in EnvValues, snap \in EnvValues :
          /\ STRICT_SCALE = envFlag(strict, "")
          /\ SNAP_TO_SCALE = envFlag(snap, "true")
    /\ phase = "idle" /\ req = NoRequest /\ calls = 0 /\ inflight = 0
    /\ hist = <<>> /\ cand = Null /\ res = Null /\ rejected = Null
    /\ sp = NoProbe /\ ex = NoProbe

\* The request arrives and the handler awaits the primary call, server.js:106-152
Receive(rq) ==
    /\ phase = "idle"
    /\ phase' = "primary"
    /\ req' = rq
    /\ calls' = 1 /\ inflight' = 1
    /\ hist' = <<"call">>
    /\ cand' = Null /\ res' = Null /\ rejected' = Null
    /\ UNCHANGED <<STRICT_SCALE, SNAP_TO_SCALE, sp, ex>>

\* The primary call resolves with a text extractJson returns a value from; the
\* handler runs to its response, server.js:155-159 and 176-219
PrimaryExtracted ==
    /\ phase = "primary"
    /\ \E raw \in RawTexts :
        /\ extractJson(raw).ok
        /\ \E doc \in DocsFor(req) :
            /\ cand' = doc
            /\ res' = Process(doc, req)
    /\ phase' = "done"
    /\ inflight' = 0
    /\ hist' = hist \o <<"resolve", "extract_ok", "send">>
    /\ UNCHANGED <<STRICT_SCALE, SNAP_TO_SCALE, req, calls, rejected, sp, ex>>

\* The primary call resolves with a text extractJson throws on; the handler
\* awaits the repair call, server.js:155-168
PrimaryGarbled ==
    /\ phase = "primary"
    /\ \E raw \in RawTexts : ~extractJson(raw).ok
    /\ phase' = "repair"
    /\ calls' = calls + 1 /\ inflight' = 1
    /\ hist' = hist \o <<"resolve", "extract_fail", "call">>
    /\ UNCHANGED <<STRICT_SCALE, SNAP_TO_SCALE, req, cand, res, rejected, sp, ex>>

\* The primary call is rejected; the outer catch answers, server.js:221-232
PrimaryRejected ==
    /\ phase = "primary"
    /\ \E err \in Errors :
        /\ rejected' = err
        /\ res' = Caught(err)
    /\ phase' = "done"
    /\ inflight' = 0
    /\ hist' = hist \o <<"reject", "send">>
    /\ UNCHANGED <<STRICT_SCALE, SNAP_TO_SCALE, req, calls, cand, sp, ex>>

\* The repair call resolves with a text extractJson returns a value from,
\* server.js:169-170 and 176-219
RepairExtracted ==
    /\ phase = "repair"
    /\ \E raw \in RawTexts :
        /\ extractJson(raw).ok
        /\ \E doc \in DocsFor(req) :
            /\ cand' = doc
            /\ res' = Process(doc, req)
    /\ phase' = "done"
    /\ inflight' = 0
    /\ hist' = hist \o <<"resolve", "extract_ok", "send">>
    /\ UNCHANGED <<STRICT_SCALE, SNAP_TO_SCALE, req, calls, rejected, sp, ex>>

\* A repair branch that asks the model once more.
RepairGarbledRetries ==
    /\ phase = "repair"
    /\ \E raw \in RawTexts : ~extractJson(raw).ok
    /\ calls' = calls + 1 /\ inflight' = 1
    /\ hist' = hist \o <<"resolve", "extract_fail", "call">>
    /\ UNCHANGED <<STRICT_SCALE, SNAP_TO_SCALE, phase, req, cand, res, rejected, sp, ex>>

\* The repair call resolves with a text extractJson throws on, server.js:169-172
RepairGarbled ==
    /\ phase = "repair"
    /\ \E raw \in RawTexts :
        /\ ~extractJson(raw).ok
        /\ res' = Send(400, "AI_JSON_ERROR",
                       ErrString(Exception("Error", extractJson(raw).message)), NoInfo)
    /\ phase' = "done"
    /\ inflight' = 0
    /\ hist' = hist \o <<"resolve", "extract_fail", "send">>
    /\ UNCHANGED <<STRICT_SCALE, SNAP_TO_SCALE, req, calls, cand, rejected, sp, ex>>

\* The repair call is rejected inside the inner try, server.js:161-172
RepairRejected ==
    /\ phase = "repair"
    /\ \E err \in Errors :
        /\ rejected' = err
        /\ res' = Send(400, "AI_JSON_ERROR", ErrString(err), NoInfo)
    /\ phase' = "done"
    /\ inflight' = 0
    /\ hist' = hist \o <<"reject", "send">>
    /\ UNCHANGED <<STRICT_SCALE, SNAP_TO_SCALE, req, calls, cand, sp, ex>>

\* The response is out; the server is ready for the next request.
Finish ==
    /\ phase = "done"
    /\ phase' = "idle"
    /\ req' = NoRequest /\ calls' = 0 /\ inflight' = 0
    /\ hist' = <<>> /\ cand' = Null /\ res' = Null /\ rejected' = Null
    /\ UNCHANGED <<STRICT_SCALE, SNAP_TO_SCALE, sp, ex>>

Next ==
    \/ \E rq \in Requests : Receive(rq)
    \/ PrimaryExtracted
    \/ PrimaryGarbled
    \/ PrimaryRejected
    \/ RepairExtracted
    \/ RepairGarbled
    \/ RepairRejected
    \/ Finish

Spec == Init /\ [][Next]_vars

(***************************************************************************)
(* The claims about the handler                                            *)
(***************************************************************************)
Done == phase = "done"
Success == Done /\ res.kind = "json"
Failure == Done /\ res.kind = "text"

CountOf(h, e) == Cardinality({i \in DOMAIN h : h[i] = e})

\* The handler reached the clamp filter and ran it: the candidate passed the
\* schema test and neither startsWith nor the filter threw.
Clamped ==
    /\ Done /\ cand # Null
    /\ cand.notes.t = "arr" /\ Truthy(cand.time_signature) /\ cand.length_bars # Null
    /\ cand.time_signature.t = "str"
    /\ \A i \in DOMAIN cand.notes.a : cand.notes.a[i] # Null

\* The candidate's notes that survive the clamp filter.
Survivors ==
    SelectSeq(cand.notes.a, LAMBDA n : noteFits(n, totalBeats(cand, req)))

\* The key and mode the scale is built from: the candidate's, else the request's.
ScaleKey == IF Truthy(cand.key) THEN cand.key ELSE req.key
ScaleMode == IF Truthy(cand.mode) THEN cand.mode ELSE req.mode
ScaleResolves ==
    Truthy(ScaleKey) /\ Truthy(ScaleMode) /\ ScaleKey.s \in DOMAIN PITCH_CLASS

\* The pitch classes of a recognised key and a mode, from the tables.
RefScale(key, mode) ==
    LET m == toLowerCase(mode)
        degrees == IF m \in DOMAIN MODES THEN MODES[m] ELSE MODES.major
    IN  {(PITCH_CLASS[key] + degrees[i]) % 12 : i \in DOMAIN degrees}

\* A pitch is diatonic: a whole number whose pitch class is in the scale.
Diatonic(v) ==
    v.t = "num" /\ ~v.half /\ (v.n % 12) \in RefScale(ScaleKey.s, ScaleMode.s)

OutOfScaleSurvivors ==
    Cardinality({i \in DOMAIN Survivors : ~Diatonic(Survivors[i].p)})

\* Every note of a success response starts at or after beat 0, lasts, and ends
\* within bpb beats a bar; a candidate note that is valid and ends exactly on
\* the last beat is in the response.
BarFit(bpb) ==
    Success =>
        LET total == res.data.length_bars.n * bpb
            out == res.data.notes.a
            in == cand.notes.a
        IN  /\ \A j \in DOMAIN out :
                /\ isFinite(out[j].tb) /\ Twice(out[j].tb) >= 0
                /\ isFinite(out[j].db) /\ Twice(out[j].db) > 0
                /\ Twice(out[j].tb) + Twice(out[j].db) <= 2 * total
            /\ \A i \in DOMAIN in :
                (/\ isFinite(in[i].tb) /\ Twice(in[i].tb) >= 0
                 /\ isFinite(in[i].db) /\ Twice(in[i].db) > 0
                 /\ isFinite(in[i].p) /\ ~in[i].p.half /\ in[i].p.n \in 0..127
                 /\ Twice(in[i].tb) + Twice(in[i].db) = 2 * total)
                    => \E j \in DOMAIN out :
                          out[j].tb = in[i].tb /\ out[j].db = in[i].db

\* C1 as stated: the bar-fit invariant with beatsPerBar 3 for the time signature
\* "3/4" and 4 for every other one; a note ending exactly on totalBeats is kept.
C1_BarFitThreeFour ==
    BarFit(IF Success /\ res.data.time_signature = Str("3/4") THEN 3 ELSE 4)

\* C1 as amended: the bar-fit invariant with beatsPerBar 3 for every time
\* signature that starts with "3/" and 4 for every other one; a note ending
\* exactly on totalBeats is kept.
C1_BarFit ==
    BarFit(IF Success /\ startsWith3(res.data.time_signature.s) THEN 3 ELSE 4)

\* A success response in 3/8 that kept a note ending on the last beat and
\* dropped a note ending after it.
C1_Witness ==
    /\ Success
    /\ res.data.time_signature = Str("3/8")
    /\ res.data.length_bars = Num(2)
    /\ cand.notes.a = <<Note(Num(5), Num(1), Num(60)), Note(Num(5), Num(3), Num(60))>>
    /\ res.data.notes.a = <<Note(Num(5), Num(1), Num(60))>>

\* C2: every note of a success response has a whole-number pitch in 0..127.
C2_PitchRange ==
    Success =>
        \A j \in DOMAIN res.data.notes.a :
            LET p == res.data.notes.a[j].p
            IN  p.t = "num" /\ ~p.half /\ p.n >= 0 /\ p.n <= 127

\* C3: with SNAP_TO_SCALE on and a scale resolved, every note of a success
\* response is in the scale, _snapped_info is present exactly when some
\* surviving note was out of scale, and snapped_count is their number.
C3_SnapPolicy ==
    (Success /\ SNAP_TO_SCALE /\ ScaleResolves) =>
        /\ \A j \in DOMAIN res.data.notes.a : Diatonic(res.data.notes.a[j].p)
        /\ (res.data.snapped_info # Null) <=> (OutOfScaleSurvivors > 0)
        /\ res.data.snapped_info # Null =>
                res.data.snapped_info.snapped_count = OutOfScaleSurvivors

\* The strict policy's answer to k out-of-scale survivors: OUT_OF_SCALE with a
\* 4xx status, the count k and the (key, mode) pair, and no document sent.
StrictRejects ==
    /\ res.kind = "text"
    /\ res.status \in 400..499
    /\ res.prefix = "OUT_OF_SCALE"
    /\ res.info = [count |-> OutOfScaleSurvivors, key |-> ScaleKey, mode |-> ScaleMode]
    /\ res.data = Null

\* C4 as stated: with STRICT_SCALE=true and a scale resolved, a candidate with
\* k >= 1 out-of-scale surviving notes is answered OUT_OF_SCALE with the count
\* k and the (key, mode) pair, never with a success response.
C4_StrictSelected ==
    (Clamped /\ STRICT_SCALE /\ ScaleResolves /\ OutOfScaleSurvivors >= 1)
        => StrictRejects

\* C4 as amended: with STRICT_SCALE=true and SNAP_TO_SCALE not true, and a
\* scale resolved, a candidate with k >= 1 out-of-scale surviving notes is
\* answered OUT_OF_SCALE with the count k and the (key, mode) pair, never with
\* a success response.
C4_StrictWithoutSnap ==
    (Clamped /\ STRICT_SCALE /\ ~SNAP_TO_SCALE /\ ScaleResolves /\ OutOfScaleSurvivors >= 1)
        => StrictRejects

\* Strict alone is configured, and a candidate in C minor with one diatonic and
\* one out-of-scale surviving note has been rejected with count 1.
C4_Witness ==
    /\ Clamped /\ STRICT_SCALE /\ ~SNAP_TO_SCALE
    /\ ScaleResolves /\ ScaleKey = Str("C") /\ ScaleMode = Str("minor")
    /\ Len(Survivors) = 2
    /\ OutOfScaleSurvivors = 1
    /\ res.prefix = "OUT_OF_SCALE" /\ res.info.count = 1

\* C5: at most two model calls per request, never two in flight; the second
\* call comes straight after the first has resolved and extraction of its text
\* has failed; a second extraction failure ends the request with
\* AI_JSON_ERROR; after a successful extraction no call follows, whatever the
\* response.
C5_RepairProtocol ==
    /\ calls <= 2
    /\ inflight <= 1
    /\ CountOf(hist, "call") = calls
    /\ \A i \in DOMAIN hist :
          (hist[i] = "call" /\ i > 1) =>
              i = 4 /\ hist[2] = "resolve" /\ hist[3] = "extract_fail"
    /\ \A i \in DOMAIN hist, j \in DOMAIN hist :
          (hist[i] = "extract_ok" /\ i < j) => hist[j] = "send"
    /\ CountOf(hist, "extract_fail") = 2 =>
          Failure /\ res.prefix = "AI_JSON_ERROR" /\ calls = 2 /\ inflight = 0
    /\ (Failure /\ res.prefix \in {"SCHEMA_MISSING_FIELDS", "OUT_OF_SCALE"}) =>
          /\ inflight = 0
          /\ hist[Len(hist)] = "send" /\ hist[Len(hist) - 1] = "extract_ok"

\* Both extractions failed and the request ended with AI_JSON_ERROR after two
\* calls.
C5_Witness ==
    /\ Failure /\ res.prefix = "AI_JSON_ERROR"
    /\ calls = 2
    /\ hist = <<"call", "resolve", "extract_fail", "call", "resolve", "extract_fail", "send">>

\* The repaired text was extracted and the request ended on the schema test
\* with no third call.
C5_WitnessSchema ==
    /\ Failure /\ res.prefix = "SCHEMA_MISSING_FIELDS"
    /\ calls = 2

\* C6: a success response carries the candidate's clip_type, length_bars,
\* time_signature, key and mode wherever the candidate supplied one, whatever
\* the request supplied.
C6_CandidateWins ==
    Success =>
        /\ Truthy(cand.clip_type) => res.data.clip_type = cand.clip_type
        /\ Truthy(cand.length_bars) =>
              res.data.length_bars.n = NumberOr(cand.length_bars, res.data.length_bars.n)
        /\ Truthy(cand.time_signature) => res.data.time_signature = cand.time_signature
        /\ Truthy(cand.key) => res.data.key = cand.key
        /\ Truthy(cand.mode) => res.data.mode = cand.mode

\* C7: a request that does not end in a success response ends in one response
\* with a 4xx status and one of the three error-kind prefixes.
C7_TypedFailures ==
    (Done /\ ~Success) =>
        /\ CountOf(hist, "send") = 1
        /\ res.status \in 400..499
        /\ res.prefix \in {"AI_JSON_ERROR", "SCHEMA_MISSING_FIELDS", "OUT_OF_SCALE"}

\* C8: a model call rejected with a status and a message, primary or repair, is
\* answered with that status and that message, and AI_JSON_ERROR is answered
\* only after extraction has failed on both texts.
C8_PassThrough ==
    Done =>
        /\ (rejected # Null /\ Truthy(rejected.status) /\ Truthy(rejected.message)) =>
              res.status = rejected.status.n /\ res.detail = <<rejected.message.s>>
        /\ res.prefix = "AI_JSON_ERROR" => CountOf(hist, "extract_fail") = 2

====
